---- MODULE Spec2Model ----
(***************************************************************************)
(* A model of the PN532 I2C driver of src/src/lib.rs: the information      *)
(* frame written by send_frame, the acknowledgment scan of expect_ack, the *)
(* response scan of receive_frame, the decoders of get_firmware_version    *)
(* and list, and the public operations built from them.  Bytes are         *)
(* naturals in 0..255 and a bus snapshot is a function over the indices    *)
(* 0..255 of the source.                                                   *)
(***************************************************************************)
EXTENDS Integers, Sequences, FiniteSets, TLC

\* ------------------------------------------------------------ constants

\* let mut b = [0u8; 256]
BufLen == 256
\* assert!(payload.len() < 0xfe)
MaxPayload == 254
\* the direction byte 0xd4
TFI == 212
\* for _ in 0..3
AckAttempts == 3
\* the width of u8
ByteMod == 256
\* `0x02, // max-targets`: the most tags the chip is asked for
MaxTargets == 2

\* ------------------------------------------------------------ bounds

\* longest arbitrary byte string placed in a snapshot
MaxContent == 3
\* longest stray prefix put before an acknowledgment marker
MaxPrefix == 3
\* longest short payload handed to send_frame, longest chip response data
MaxData == 3
\* largest timeout (in clock ticks) handed to receive_frame
MaxTimeout == 1
\* most clock ticks one poll iteration (sleep, read, scan) may take
MaxStep == 2
\* the longest UID of the tag lists decoded
MaxUid == 2

\* ------------------------------------------------------------ input sets

Byte == 0 .. (ByteMod - 1)

SeqsUpTo(S, n) == UNION {[1 .. k -> S] : k \in 0 .. n}

SampleBytes == {0, 1, 5, 255}
PrefixBytes == {0, 7, 255}
DataBytes == {0, 44, 255}

Pad(fill, n) == [k \in 1 .. n |-> fill]

\* payload lengths around the bound of the assertion, and past the width of u8
LongLens == (MaxPayload - 7) .. (MaxPayload + 2)

Payloads ==
    SeqsUpTo(DataBytes, MaxData) \cup {Pad(f, n) : f \in {44, 255}, n \in LongLens}

ZeroBuf == [k \in 0 .. (BufLen - 1) |-> 0]
RampBuf == [k \in 0 .. (BufLen - 1) |-> k % ByteMod]
Backgrounds == {ZeroBuf, RampBuf}

\* the snapshot holding `content` from index `off` on, `bg` elsewhere
Place(off, content, bg) ==
    [k \in 0 .. (BufLen - 1) |->
        IF k >= off /\ k < off + Len(content) THEN content[k - off + 1] ELSE bg[k]]

Offsets == {0, 1, 247, 248, 252, 253}

AckMarker == <<0, 0, 255, 0>>

\* the chip's frames: a response carrying data q, and its error frame
ChipFrame(q) ==
    <<0, 0, 255, Len(q) + 1, (ByteMod - (Len(q) + 1)) % ByteMod, 213>> \o q \o <<0, 0>>
ErrorFrames ==
    {<<0, 0, 255, 1, 171>>, <<0, 0, 255, 1, 255, 171>>, <<0, 0, 255, 1, 255, 127, 129, 0>>}

Snapshots ==
    {Place(oc[1], oc[2], bg) :
        oc \in {x \in Offsets \X SeqsUpTo(SampleBytes, MaxContent) :
                    x[1] + Len(x[2]) <= BufLen},
        bg \in Backgrounds}
    \cup {Place(0, pre \o AckMarker, bg) :
            pre \in SeqsUpTo(PrefixBytes, MaxPrefix), bg \in Backgrounds}
    \cup {Place(off, ChipFrame(q), bg) :
            off \in {0, 247}, q \in SeqsUpTo(DataBytes, MaxData), bg \in Backgrounds}
    \cup {Place(0, e, ZeroBuf) : e \in ErrorFrames}

\* ------------------------------------------------------------ send_frame

WrappingSub(a, x) == (a - x + ByteMod) % ByteMod

\* the assertion with its bound off by one
SendFramePreOffByOne(payload) == Len(payload) <= MaxPayload

SendFramePre(payload) == Len(payload) < MaxPayload

LenByte(payload) == ((Len(payload) % ByteMod) + 1) % ByteMod

LenChecksum(len) == WrappingSub(0, len)

\* the loop `for p in payload { checksum = checksum.wrapping_sub(*p) }` over
\* payload[lo..hi], left to right; the range is split in halves and the
\* accumulator bound to its value on entry, to keep the evaluation shallow
RECURSIVE ChecksumFrom(_, _, _, _)
ChecksumFrom(checksum, payload, lo, hi) ==
    CHOOSE r \in
        {IF lo > hi THEN acc
         ELSE IF lo = hi THEN WrappingSub(acc, payload[lo])
         ELSE ChecksumFrom(ChecksumFrom(acc, payload, lo, (lo + hi) \div 2),
                           payload, (lo + hi) \div 2 + 1, hi)
            : acc \in {checksum}} : TRUE

\* the checksum that forgets the direction byte
ChecksumNoTfi(payload) == ChecksumFrom(0, payload, 1, Len(payload))

Checksum(payload) == ChecksumFrom(WrappingSub(0, TFI), payload, 1, Len(payload))

Frame(payload) ==
    <<0, 0, 255, LenByte(payload), LenChecksum(LenByte(payload)), TFI>>
        \o payload \o <<Checksum(payload), 0>>

\* ------------------------------------------------------------ results

Res(kind, code, data) == [kind |-> kind, code |-> code, data |-> data]
Running == Res("running", 0, <<>>)

\* ------------------------------------------------------------ expect_ack

\* a scan under way in automaton state `state`
Scanning(state) == Res("scan", state, <<>>)

\* the match that takes the application error's code from the next byte
AckStepCodeNext(s, i, state) ==
    IF s[i] = 0 /\ state = 0 THEN Scanning(1)
    ELSE IF s[i] = 0 /\ state = 1 THEN Scanning(1)
    ELSE IF s[i] = 255 /\ state = 1 THEN Scanning(2)
    ELSE IF s[i] = 0 /\ state = 2 THEN Res("ok", 0, <<>>)
    ELSE IF s[i] = 255 /\ state = 2 THEN Res("nack", 0, <<>>)
    ELSE IF s[i] = 1 /\ state = 2
        THEN IF i + 1 < BufLen THEN Res("apperr", s[i + 1], <<>>)
             ELSE Res("panic", 0, <<>>)
    ELSE IF state = 2 THEN Res("ooo", 0, <<>>)
    ELSE Scanning(0)

\* the match without its (0x00, 1) arm: a second 0x00 falls to the reset
AckStepNoRepeat(s, i, state) ==
    IF s[i] = 0 /\ state = 0 THEN Scanning(1)
    ELSE IF s[i] = 255 /\ state = 1 THEN Scanning(2)
    ELSE IF s[i] = 0 /\ state = 2 THEN Res("ok", 0, <<>>)
    ELSE IF s[i] = 255 /\ state = 2 THEN Res("nack", 0, <<>>)
    ELSE IF s[i] = 1 /\ state = 2
        THEN IF i + 2 < BufLen THEN Res("apperr", s[i + 2], <<>>)
             ELSE Res("panic", 0, <<>>)
    ELSE IF state = 2 THEN Res("ooo", 0, <<>>)
    ELSE Scanning(0)

\* one turn of `match (b[i], state)`: the next automaton state, or the return
AckStep(s, i, state) ==
    IF s[i] = 0 /\ state = 0 THEN Scanning(1)
    ELSE IF s[i] = 0 /\ state = 1 THEN Scanning(1)
    ELSE IF s[i] = 255 /\ state = 1 THEN Scanning(2)
    ELSE IF s[i] = 0 /\ state = 2 THEN Res("ok", 0, <<>>)
    ELSE IF s[i] = 255 /\ state = 2 THEN Res("nack", 0, <<>>)
    ELSE IF s[i] = 1 /\ state = 2
        THEN IF i + 2 < BufLen THEN Res("apperr", s[i + 2], <<>>)
             ELSE Res("panic", 0, <<>>)
    ELSE IF state = 2 THEN Res("ooo", 0, <<>>)
    ELSE Scanning(0)

\* `for i in 0..b.len()` over the indices lo..hi, in order, stopping at a
\* return; the range is split in halves and the scan state bound to its value
\* on entry, to keep the evaluation shallow
RECURSIVE AckScanRange(_, _, _, _)
AckScanRange(s, st0, lo, hi) ==
    CHOOSE r \in
        {IF st.kind # "scan" \/ lo > hi THEN st
         ELSE IF lo = hi THEN AckStep(s, lo, st.code)
         ELSE AckScanRange(s, AckScanRange(s, st, lo, (lo + hi) \div 2),
                           (lo + hi) \div 2 + 1, hi)
            : st \in {st0}} : TRUE

\* the scan of one snapshot by a scanner that enters it in automaton state
\* state0; "none", with the state the automaton is left in, when the loop ends
\* without a return
AckScanFrom(s, state0) ==
    CHOOSE r \in
        {IF st.kind = "scan" THEN Res("none", st.code, <<>>) ELSE st
            : st \in {AckScanRange(s, Scanning(state0), 0, BufLen - 1)}} : TRUE

\* `let mut state = 0;` and the scan of one snapshot
AckScan(s) == AckScanFrom(s, 0)

\* ------------------------------------------------------------ receive_frame

\* the test that gives up as soon as the timeout is reached
TimedOutAtTimeout(e, t) == e >= t

\* `if now.elapsed() > timeout`
TimedOut(e, t) == e > t

\* the slice taken one byte early
FrameSliceEarly(s, i, size) ==
    IF i + 2 + (size - 1) <= BufLen
    THEN Res("frame", 0, [j \in 1 .. (size - 1) |-> s[i + 2 + (j - 1)]])
    ELSE Res("panic", 0, <<>>)

\* `b[i+3 .. i+3 + (size as usize - 1)].to_vec()`: the slice, or the panic of a
\* range that ends past the buffer
FrameSlice(s, i, size) ==
    IF i + 3 + (size - 1) <= BufLen
    THEN Res("frame", 0, [j \in 1 .. (size - 1) |-> s[i + 3 + (j - 1)]])
    ELSE Res("panic", 0, <<>>)

\* one turn of `match (b[i], state)`: the next automaton state, the break out
\* of the scan, or the return
FrameStep(s, i, state) ==
    IF s[i] = 0 /\ state = 0 THEN Scanning(1)
    ELSE IF s[i] = 0 /\ state = 1 THEN Scanning(1)
    ELSE IF s[i] = 255 /\ state = 1 THEN Scanning(2)
    ELSE IF s[i] = 0 /\ state = 2 THEN Res("break", 0, <<>>)
    ELSE IF s[i] = 255 /\ state = 2 THEN Res("break", 0, <<>>)
    ELSE IF s[i] = 1 /\ state = 2
        THEN IF i + 2 < BufLen THEN Res("apperr", s[i + 2], <<>>)
             ELSE Res("panic", 0, <<>>)
    ELSE IF state = 2 THEN FrameSlice(s, i, s[i])
    ELSE Scanning(0)

\* `for i in 0..b.len()` over the indices lo..hi, as in expect_ack
RECURSIVE FrameScanRange(_, _, _, _)
FrameScanRange(s, st0, lo, hi) ==
    CHOOSE r \in
        {IF st.kind # "scan" \/ lo > hi THEN st
         ELSE IF lo = hi THEN FrameStep(s, lo, st.code)
         ELSE FrameScanRange(s, FrameScanRange(s, st, lo, (lo + hi) \div 2),
                             (lo + hi) \div 2 + 1, hi)
            : st \in {st0}} : TRUE

\* `let mut state = 0;` and the scan of one snapshot; "none", with the state
\* the automaton is left in, when the loop over the buffer ends
FrameScan(s) ==
    CHOOSE r \in
        {IF st.kind = "scan" THEN Res("none", st.code, <<>>) ELSE st
            : st \in {FrameScanRange(s, Scanning(0), 0, BufLen - 1)}} : TRUE

\* ------------------------------------------------------------ response decoders

\* p[k] of the source, whose indices start at 0
At(p, k) == p[k + 1]

\* what a decoder returns: the firmware tuple or the list of tags in `data`
Decoded(kind, data) == Res(kind, 0, data)

\* the tuple read from offsets 0..3
FirmwareVersionFromZero(p) ==
    IF Len(p) >= 5
    THEN Decoded("version", <<At(p, 0), At(p, 1), At(p, 2), At(p, 3)>>)
    ELSE Res("panic", 0, <<>>)

\* `Ok((r[1],r[2],r[3],r[4]))`: indexing a Vec past its end panics
FirmwareVersion(p) ==
    IF Len(p) >= 5
    THEN Decoded("version", <<At(p, 1), At(p, 2), At(p, 3), At(p, 4)>>)
    ELSE Res("panic", 0, <<>>)

\* one pass of the loop body of list has returned Ok(Vec::new()) with the
\* index at j, or pushed `tag` and left the index at j
EntryEmpty(j) == [kind |-> "empty", i |-> j, tag |-> <<>>]
EntryTag(j, tag) == [kind |-> "tag", i |-> j, tag |-> tag]

\* the ats block that skips the length read, whatever it is
AfterAtsAlwaysSkip(p, j) ==
    IF j < Len(p) THEN j + At(p, j) ELSE j

\* the `//ats` block: the index after it, from the index j after the UID
AfterAts(p, j) ==
    IF j < Len(p)
    THEN IF At(p, j) = 2 THEN j ELSE j + At(p, j)
    ELSE j

\* the loop body with a header of 3 bytes
ListEntrySkipThree(p, i0) ==
    IF i0 >= Len(p) THEN EntryEmpty(i0)
    ELSE IF i0 + 3 >= Len(p) THEN EntryEmpty(i0 + 3)
    ELSE IF i0 + 4 >= Len(p) THEN EntryEmpty(i0 + 4)
    ELSE IF i0 + 4 + At(p, i0 + 3) > Len(p) THEN EntryEmpty(i0 + 4)
    ELSE EntryTag(AfterAts(p, i0 + 4 + At(p, i0 + 3)),
                  SubSeq(p, i0 + 4 + 1, i0 + 4 + At(p, i0 + 3)))

\* one pass of the body of `for _ in 0..num`, entered with the index at i0:
\* the four bounds checks, the UID pushed, the ats block
ListEntry(p, i0) ==
    IF i0 >= Len(p) THEN EntryEmpty(i0)
    ELSE IF i0 + 4 >= Len(p) THEN EntryEmpty(i0 + 4)
    ELSE IF i0 + 5 >= Len(p) THEN EntryEmpty(i0 + 5)
    ELSE IF i0 + 5 + At(p, i0 + 4) > Len(p) THEN EntryEmpty(i0 + 5)
    ELSE EntryTag(AfterAts(p, i0 + 5 + At(p, i0 + 4)),
                  SubSeq(p, i0 + 5 + 1, i0 + 5 + At(p, i0 + 4)))

\* ------------------------------------------------------------ state

VARIABLES
    op,        \* the function under way
    bus,       \* what the chip side puts on the bus: "any", "sample",
               \* "loopback", "chip"
    pc,        \* where it stands: "send", "ack", "ack_scan", "recv",
               \* "recv_scan", "hold", "decode", "entry", "done", "aborted"
    payload,   \* send_frame's argument
    written,   \* the bytes handed to i2c.write, <<>> when none were
    b,         \* the local buffer b of the current poll iteration
    reads,     \* bus reads issued so far
    scans,     \* expect_ack: what the scan of each snapshot read gave
    elapsed,   \* receive_frame: the clock since `now`, in ticks
    timeout,   \* receive_frame's argument
    result,    \* what the function returned, or the panic that ended it
    trace,     \* the bus transactions and the sleep of powerdown, in order
    last_state,\* the value the local `state` had when the last scan ended
    r,         \* the payload receive_frame returned to the public operation
    i,         \* list: the read index
    tags,      \* list: the UIDs pushed so far
    left       \* list: the passes of `for _ in 0..num` still to run

vars == <<op, bus, pc, payload, written, b, reads, scans, elapsed, timeout,
          result, trace, last_state, r, i, tags, left>>

\* the locals of the response decoders
decoding == <<r, i, tags, left>>

\* ------------------------------------------------------------ public operations

PublicOps == {"setup", "powerdown", "get_firmware_version", "list"}

\* the command bytes each public operation hands to send_frame
CommandPayload(o) ==
    IF o = "get_firmware_version" THEN <<2>>
    ELSE IF o = "powerdown" THEN <<22, 131>>
    ELSE IF o = "setup" THEN <<20, 1>>
    ELSE <<74, 2, 0>>

\* receive_frame(Duration::from_millis(10)), in ticks of a millisecond
FirmwareTimeout == 10

\* where a function that returned Ok goes on
AfterSend ==
    IF op = "roundtrip" THEN "recv"
    ELSE IF op \in PublicOps THEN "ack"
    ELSE "done"

\* operations that go on to the response whatever expect_ack returned
AfterAckUnchecked(kind) ==
    IF op \in {"get_firmware_version", "list"} THEN "recv"
    ELSE IF op = "powerdown" THEN "hold"
    ELSE "done"

\* where an operation goes on when expect_ack has returned with `kind`: every
\* Err leaves through `?`
AfterAck(kind) ==
    IF kind # "ok" THEN "done"
    ELSE IF op \in {"get_firmware_version", "list"} THEN "recv"
    ELSE IF op = "powerdown" THEN "hold"
    ELSE "done"

\* where an operation goes on when receive_frame has returned a payload
AfterRecv == IF op \in {"get_firmware_version", "list"} THEN "decode" ELSE "done"

\* ------------------------------------------------------------ actions

SendFrame ==
    /\ pc = "send"
    /\ IF ~SendFramePre(payload)
       THEN /\ written' = written
            /\ result' = Res("panic", 0, <<>>)
            /\ pc' = "aborted"
            /\ trace' = trace
       ELSE /\ written' = Frame(payload)
            /\ \E okw \in BOOLEAN :
                 IF okw
                 THEN /\ result' = Res("ok", 0, <<>>)
                      /\ pc' = AfterSend
                      /\ trace' = Append(trace, "write")
                 ELSE /\ result' = Res("buserr", 0, <<>>)
                      /\ pc' = "done"
                      /\ trace' = Append(trace, "write_err")
    /\ UNCHANGED <<op, bus, payload, b, reads, scans, elapsed, timeout, last_state>>
    /\ UNCHANGED decoding

\* one snapshot for each way a scan can go: no marker, a marker cut off by
\* the end of the buffer, the chip's acknowledgment, negative acknowledgment,
\* response and error frames, and frames that reach past the buffer
SampleSnapshots ==
    {ZeroBuf, RampBuf,
     Place(254, <<0, 255>>, RampBuf),
     Place(0, AckMarker \o <<255, 0>>, ZeroBuf),
     Place(0, <<0, 0, 255, 255, 0, 0>>, ZeroBuf),
     Place(0, ChipFrame(<<75, 1, 2>>), RampBuf),
     Place(0, <<0, 0, 255, 1, 255, 127, 129, 0>>, ZeroBuf),
     Place(253, <<0, 255, 1>>, ZeroBuf),
     Place(250, ChipFrame(<<75, 1, 2>>), ZeroBuf)}

\* response data of the chip: a firmware version, a list of one tag, of two
\* tags the first without ats, and a list cut off inside the UID
ChipResponses ==
    {<<3, 50, 1, 6, 7>>,
     <<75, 1, 1, 0, 4, 8, 1, 5>>,
     <<75, 2, 1, 0, 4, 8, 1, 5, 2, 0, 4, 8, 1, 6>>,
     <<75, 1, 1, 0, 4, 8, 4, 5>>}

\* what the chip may show to a public operation
ChipSnapshots ==
    SampleSnapshots \cup {Place(0, ChipFrame(q), ZeroBuf) : q \in ChipResponses}

\* the snapshots a bus read may deliver: anything; the samples; the chip's
\* frames; or, when send_frame's own frame is looped back, the chip's
\* acknowledgment frame and the frame written, at the start of the buffer
BusSnapshots ==
    IF bus = "any" THEN Snapshots
    ELSE IF bus = "sample" THEN SampleSnapshots
    ELSE IF bus = "chip" THEN ChipSnapshots
    ELSE {Place(0, AckMarker \o <<255, 0>>, ZeroBuf)}
         \cup (IF Len(written) <= BufLen
               THEN {Place(0, written, bg) : bg \in Backgrounds}
               ELSE {})

\* expect_ack, one loop iteration up to the read: sleep, a fresh buffer, i2c.read
AckRead ==
    /\ pc = "ack"
    /\ reads < AckAttempts
    /\ reads' = reads + 1
    /\ \/ /\ b' = ZeroBuf
          /\ result' = Res("buserr", 0, <<>>)
          /\ pc' = "done"
          /\ trace' = Append(trace, "ack_read_err")
       \/ \E s \in BusSnapshots :
            /\ b' = s
            /\ result' = result
            /\ pc' = "ack_scan"
            /\ trace' = Append(trace, "ack_read")
    /\ UNCHANGED <<op, bus, payload, written, scans, elapsed, timeout, last_state>>
    /\ UNCHANGED decoding

\* the scan of expect_ack by a scanner that keeps its state from one snapshot
\* to the next
AckScanStepCarried ==
    /\ pc = "ack_scan"
    /\ \E res \in {AckScanFrom(b, last_state)} :
         /\ scans' = Append(scans, res.kind)
         /\ IF res.kind = "panic"
            THEN result' = res /\ pc' = "aborted" /\ b' = b /\ last_state' = last_state
            ELSE IF res.kind # "none"
            THEN result' = res /\ pc' = AfterAck(res.kind) /\ b' = b
                 /\ last_state' = last_state
            ELSE IF reads = AckAttempts
            THEN result' = Res("timeout", 0, <<>>) /\ pc' = "done" /\ b' = b
                 /\ last_state' = last_state
            ELSE result' = result /\ pc' = "ack" /\ b' = ZeroBuf
                 /\ last_state' = res.code
    /\ UNCHANGED <<op, bus, payload, written, reads, elapsed, timeout, trace>>
    /\ UNCHANGED decoding

\* expect_ack, the scan of the buffer read; after the third fruitless scan the
\* loop ends and Err("timeout") is returned
AckScanStep ==
    /\ pc = "ack_scan"
    /\ \E res \in {AckScan(b)} :
         /\ scans' = Append(scans, res.kind)
         /\ IF res.kind = "panic"
            THEN result' = res /\ pc' = "aborted" /\ b' = b /\ last_state' = last_state
            ELSE IF res.kind # "none"
            THEN result' = res /\ pc' = AfterAck(res.kind) /\ b' = b
                 /\ last_state' = last_state
            ELSE IF reads = AckAttempts
            THEN result' = Res("timeout", 0, <<>>) /\ pc' = "done" /\ b' = b
                 /\ last_state' = last_state
            ELSE result' = result /\ pc' = "ack" /\ b' = ZeroBuf
                 /\ last_state' = res.code
    /\ UNCHANGED <<op, bus, payload, written, reads, elapsed, timeout, trace>>
    /\ UNCHANGED decoding

\* receive_frame, the head of a loop iteration when the time is up
RecvTimeout ==
    /\ pc = "recv"
    /\ TimedOut(elapsed, timeout)
    /\ result' = Res("timeout", 0, <<>>)
    /\ pc' = "done"
    /\ UNCHANGED <<op, bus, payload, written, b, reads, scans, elapsed, timeout,
                   trace, last_state>>
    /\ UNCHANGED decoding

\* a read of receive_frame that is tried again after a bus error
RecvReadRetried ==
    /\ pc = "recv"
    /\ ~TimedOut(elapsed, timeout)
    /\ \E d \in 1 .. MaxStep : elapsed' = elapsed + d
    /\ reads' = reads + 1
    /\ \/ /\ b' = ZeroBuf
          /\ result' = Running
          /\ pc' = "recv"
          /\ trace' = Append(trace, "poll_read_err")
       \/ \E s \in BusSnapshots :
            /\ b' = s
            /\ result' = result
            /\ pc' = "recv_scan"
            /\ trace' = Append(trace, "poll_read")
    /\ UNCHANGED <<op, bus, payload, written, scans, timeout, last_state>>
    /\ UNCHANGED decoding

\* receive_frame, one loop iteration up to the read: the time is not up,
\* sleep, a fresh buffer, i2c.read; the clock moves on by at least the sleep
RecvRead ==
    /\ pc = "recv"
    /\ ~TimedOut(elapsed, timeout)
    /\ \E d \in 1 .. MaxStep : elapsed' = elapsed + d
    /\ reads' = reads + 1
    /\ \/ /\ b' = ZeroBuf
          /\ result' = Res("buserr", 0, <<>>)
          /\ pc' = "done"
          /\ trace' = Append(trace, "poll_read_err")
       \/ \E s \in BusSnapshots :
            /\ b' = s
            /\ result' = result
            /\ pc' = "recv_scan"
            /\ trace' = Append(trace, "poll_read")
    /\ UNCHANGED <<op, bus, payload, written, scans, timeout, last_state>>
    /\ UNCHANGED decoding

\* receive_frame, the scan of the buffer read: a return, or the next
\* iteration; the payload returned becomes the caller's r
RecvScan ==
    /\ pc = "recv_scan"
    /\ \E res \in {FrameScan(b)} :
         IF res.kind = "panic"
         THEN result' = res /\ pc' = "aborted" /\ b' = b /\ r' = r
              /\ last_state' = last_state
         ELSE IF res.kind = "frame"
         THEN result' = res /\ pc' = AfterRecv /\ b' = b
              /\ r' = (IF AfterRecv = "decode" THEN res.data ELSE r)
              /\ last_state' = last_state
         ELSE IF res.kind = "apperr"
         THEN result' = res /\ pc' = "done" /\ b' = b /\ r' = r
              /\ last_state' = last_state
         ELSE result' = Running /\ pc' = "recv" /\ b' = ZeroBuf /\ r' = r
              /\ last_state' = (IF res.kind = "break" THEN 2 ELSE res.code)
    /\ UNCHANGED <<op, bus, payload, written, reads, scans, elapsed, timeout,
                   trace, i, tags, left>>

\* powerdown, after expect_ack()?: sleep(Duration::from_millis(1)); Ok(())
PowerdownHold ==
    /\ pc = "hold"
    /\ trace' = Append(trace, "hold")
    /\ result' = Res("ok", 0, <<>>)
    /\ pc' = "done"
    /\ UNCHANGED <<op, bus, payload, written, b, reads, scans, elapsed, timeout,
                   last_state>>
    /\ UNCHANGED decoding

\* get_firmware_version, after receive_frame: Ok((r[1],r[2],r[3],r[4]))
FirmwareDecode ==
    /\ pc = "decode"
    /\ op = "get_firmware_version"
    /\ result' = FirmwareVersion(r)
    /\ pc' = IF FirmwareVersion(r).kind = "panic" THEN "aborted" ELSE "done"
    /\ UNCHANGED <<op, bus, payload, written, b, reads, scans, elapsed, timeout,
                   trace, last_state>>
    /\ UNCHANGED decoding

\* list, after receive_frame: the length check, num, i and tags
ListStart ==
    /\ pc = "decode"
    /\ op = "list"
    /\ IF Len(r) < 5
       THEN /\ result' = Decoded("tags", <<>>)
            /\ pc' = "done"
            /\ UNCHANGED <<i, tags, left>>
       ELSE /\ left' = At(r, 1)
            /\ i' = 2
            /\ tags' = <<>>
            /\ result' = Running
            /\ pc' = "entry"
    /\ UNCHANGED <<op, bus, payload, written, b, reads, scans, elapsed, timeout,
                   trace, last_state, r>>

\* list, one pass of `for _ in 0..num`
ListLoop ==
    /\ pc = "entry"
    /\ left > 0
    /\ \E e \in {ListEntry(r, i)} :
         /\ i' = e.i
         /\ IF e.kind = "empty"
            THEN /\ result' = Decoded("tags", <<>>)
                 /\ pc' = "done"
                 /\ UNCHANGED <<tags, left>>
            ELSE /\ tags' = Append(tags, e.tag)
                 /\ left' = left - 1
                 /\ result' = result
                 /\ pc' = "entry"
    /\ UNCHANGED <<op, bus, payload, written, b, reads, scans, elapsed, timeout,
                   trace, last_state, r>>

\* list, after the loop: Ok(tags)
ListReturn ==
    /\ pc = "entry"
    /\ left = 0
    /\ result' = Decoded("tags", tags)
    /\ pc' = "done"
    /\ UNCHANGED <<op, bus, payload, written, b, reads, scans, elapsed, timeout,
                   trace, last_state>>
    /\ UNCHANGED decoding

\* ------------------------------------------------------------ specifications

InitCall(o, chip, start) ==
    /\ op = o
    /\ bus = chip
    /\ pc = start
    /\ written = <<>>
    /\ b = ZeroBuf
    /\ reads = 0
    /\ scans = <<>>
    /\ elapsed = 0
    /\ result = Running
    /\ trace = <<>>
    /\ last_state = 0
    /\ r = <<>>
    /\ i = 0
    /\ tags = <<>>
    /\ left = 0

\* send_frame on every payload of Payloads
InitSend == InitCall("send_frame", "any", "send") /\ payload \in Payloads /\ timeout = 0
NextSend == SendFrame
SpecSend == InitSend /\ [][NextSend]_vars

\* expect_ack against every sequence of bus reads
InitAck == InitCall("expect_ack", "any", "ack") /\ payload = <<>> /\ timeout = 0
NextAck == AckRead \/ AckScanStep
SpecAck == InitAck /\ [][NextAck]_vars

\* receive_frame against every timeout and every sequence of bus reads
InitRecv ==
    /\ InitCall("receive_frame", "any", "recv")
    /\ payload = <<>>
    /\ timeout \in 0 .. MaxTimeout
NextRecv == RecvTimeout \/ RecvRead \/ RecvScan
SpecRecv == InitRecv /\ [][NextRecv]_vars

\* receive_frame against every timeout and every sequence of sample snapshots;
\* the function runs on until it returns: its sleeps and its reads come back
InitRecvClock ==
    /\ InitCall("receive_frame", "sample", "recv")
    /\ payload = <<>>
    /\ timeout \in 0 .. (MaxTimeout + 1)
SpecRecvClock == InitRecvClock /\ [][NextRecv]_vars
FairSpecRecvClock == SpecRecvClock /\ WF_vars(NextRecv)

\* send_frame, then receive_frame on a bus that holds the frame just written
InitRoundTrip ==
    /\ InitCall("roundtrip", "loopback", "send")
    /\ payload \in Payloads
    /\ timeout \in 0 .. MaxTimeout
NextRoundTrip == SendFrame \/ RecvTimeout \/ RecvRead \/ RecvScan
SpecRoundTrip == InitRoundTrip /\ [][NextRoundTrip]_vars

VersionBytes == {1, 7, 50}

\* the payloads handed to the firmware decoder: receive_frame returns at
\* least one byte
VersionPayloads ==
    (SeqsUpTo(VersionBytes, MaxData + 3) \ {<<>>}) \cup {<<0, 50, 1, 6, 7>>}

Uids == {SubSeq(<<5, 2, 6, 7>>, 1, k) : k \in 0 .. MaxUid}
Trailers == {<<>>, <<0>>, <<1>>, <<3, 8, 8>>, <<9>>}

\* the entry of target k: enumerator, sens_res, sel_res, UID length, UID, ats
Entries(k) == {<<k, 170, 187, 4, Len(u)>> \o u \o t : u \in Uids, t \in Trailers}

RECURSIVE EntryLists(_, _)
EntryLists(k, n) ==
    IF k > n THEN {<<>>}
    ELSE {<<>>} \cup {e \o rest : e \in Entries(k), rest \in EntryLists(k + 1, n)}

Prefixes(p) == {SubSeq(p, 1, k) : k \in 1 .. Len(p)}

\* the payloads handed to the tag-list decoder: an echo byte, a tag count, the
\* entries of up to MaxTargets targets, cut off anywhere; and one with a UID
\* of four bytes
ListPayloads ==
    UNION {Prefixes(<<0, num>> \o body) :
              num \in 0 .. (MaxTargets + 1), body \in EntryLists(1, MaxTargets)}
    \cup {<<0, 1, 0, 170, 187, 4, 4, 5, 6, 7, 2>>}

\* the decoders on every payload of VersionPayloads and ListPayloads, from the
\* state in which receive_frame has just returned it
InitDecode ==
    /\ op \in {"get_firmware_version", "list"}
    /\ bus = "chip"
    /\ pc = "decode"
    /\ payload = CommandPayload(op)
    /\ written = Frame(payload)
    /\ r \in (IF op = "list" THEN ListPayloads ELSE VersionPayloads)
    /\ b = Place(0, ChipFrame(r), ZeroBuf)
    /\ reads = 2
    /\ scans = <<"ok">>
    /\ elapsed = 1
    /\ timeout = (IF op = "list" THEN MaxTimeout ELSE FirmwareTimeout)
    /\ result = Res("frame", 0, r)
    /\ trace = <<"write", "ack_read", "poll_read">>
    /\ last_state = 0
    /\ i = 0
    /\ tags = <<>>
    /\ left = 0
NextDecode == FirmwareDecode \/ ListStart \/ ListLoop \/ ListReturn
SpecDecode == InitDecode /\ [][NextDecode]_vars

\* a public operation, from its call to its return, against every sequence
\* of snapshots of the chip
Init ==
    /\ \E o \in PublicOps : InitCall(o, "chip", "send") /\ payload = CommandPayload(o)
    /\ timeout \in (IF op = "get_firmware_version" THEN {FirmwareTimeout}
                    ELSE IF op = "list" THEN 0 .. MaxTimeout ELSE {0})
Next ==
    \/ SendFrame
    \/ AckRead
    \/ AckScanStep
    \/ RecvTimeout
    \/ RecvRead
    \/ RecvScan
    \/ PowerdownHold
    \/ FirmwareDecode
    \/ ListStart
    \/ ListLoop
    \/ ListReturn
Spec == Init /\ [][Next]_vars

\* ------------------------------------------------------------ claims: send_frame

\* the sum of the bytes p[lo..hi], as an unbounded integer
RECURSIVE SumRange(_, _, _)
SumRange(p, lo, hi) ==
    IF lo > hi THEN 0
    ELSE IF lo = hi THEN p[lo]
    ELSE SumRange(p, lo, (lo + hi) \div 2) + SumRange(p, (lo + hi) \div 2 + 1, hi)

Sum(p) == SumRange(p, 1, Len(p))

\* the least non-negative residue of -n modulo 256
NegMod(n) == (256 - (n % 256)) % 256

SendEnded == op = "send_frame" /\ pc \in {"done", "aborted"}

\* the frame the specification prescribes for payload p
PrescribedFrame(p) ==
    <<0, 0, 255, Len(p) + 1, NegMod(Len(p) + 1), 212>> \o p \o <<NegMod(212 + Sum(p)), 0>>

\* C1: send_frame hands to the bus, for every payload shorter than 254 bytes,
\* exactly [0x00, 0x00, 0xFF, |p|+1, -(|p|+1) mod 256, 0xD4, p..., checksum, 0x00]
\* (|p|+8 bytes, the length byte |p|+1 unwrapped), and for every payload of 254
\* bytes or more its precondition fails and nothing is handed to the bus.
C1_SendFrameTotal ==
    /\ pc = "send" => written = <<>>
    /\ SendEnded =>
         IF Len(payload) < 254
         THEN /\ result.kind \in {"ok", "buserr"}
              /\ written = PrescribedFrame(payload)
              /\ Len(written) = Len(payload) + 8
              /\ written[4] = Len(payload) + 1
         ELSE /\ result.kind = "panic"
              /\ written = <<>>

\* the longest accepted payload has been framed
C1_Witness == SendEnded /\ Len(payload) = 253 /\ Len(written) = 261 /\ written[4] = 254

\* C2: in every frame send_frame produces, length byte + length checksum is 0
\* modulo 256 and payload checksum + 0xD4 + the payload's bytes is 0 modulo 256.
C2_ChecksumsCancel ==
    (SendEnded /\ written # <<>>) =>
        /\ (written[4] + written[5]) % 256 = 0
        /\ (written[Len(written) - 1] + 212 + Sum(payload)) % 256 = 0

\* a frame whose byte sum wraps around more than once
C2_Witness ==
    /\ SendEnded /\ written # <<>>
    /\ Len(payload) <= MaxData
    /\ 212 + Sum(payload) > 512
    /\ written[Len(written) - 1] # 0

\* ------------------------------------------------------------ claims: expect_ack

\* a start marker, 0x00 then 0xFF, lies at indices j, j+1 of snapshot s
MarkerAt(s, j) == s[j] = 0 /\ s[j + 1] = 255

\* the index of the first start marker of s, -1 when it has none
FirstMarker(s) ==
    IF \E j \in 0 .. (BufLen - 2) : MarkerAt(s, j)
    THEN CHOOSE j \in 0 .. (BufLen - 2) :
            MarkerAt(s, j) /\ \A k \in 0 .. (j - 1) : ~MarkerAt(s, k)
    ELSE -1

\* the index of the byte that follows the first start marker of s, -1 when
\* there is no marker or nothing follows it
Follow(s) ==
    IF FirstMarker(s) = -1 \/ FirstMarker(s) + 2 > BufLen - 1 THEN -1
    ELSE FirstMarker(s) + 2

\* expect_ack has ended on the scan of the snapshot in b
AckEnded == op = "expect_ack" /\ pc \in {"done", "aborted"} /\ result.kind # "buserr"

\* the outcome the specification gives the snapshot s
AckOutcome(s) ==
    IF Follow(s) = -1 THEN "none"
    ELSE IF s[Follow(s)] = 0 THEN "ok"
    ELSE IF s[Follow(s)] = 255 THEN "nack"
    ELSE IF s[Follow(s)] = 1 THEN "apperr"
    ELSE "ooo"

\* C3: the outcome of the scan of a snapshot by expect_ack is decided by the
\* byte after its first start marker: 0x00 success, 0xFF Nack, 0x01
\* ApplicationError, any other byte OutOfOrder.
C3_OutcomeByFollowByte ==
    AckEnded =>
        /\ scans[Len(scans)] = AckOutcome(b)
        /\ result.kind = IF AckOutcome(b) = "none" THEN "timeout" ELSE AckOutcome(b)

C5_TimeoutIffThreeFruitless ==
    /\ reads <= 3
    /\ (op = "expect_ack" /\ pc \in {"done", "aborted"}) =>
         (result.kind = "timeout" <=>
            (/\ Len(scans) = 3
             /\ \A k \in 1 .. 3 : scans[k] \notin {"ok", "nack", "apperr", "ooo"}))

\* the acknowledgment marker 0x00 0x00 0xFF 0x00 lies at indices k .. k+3 of s
AckMarkerAt(s, k) == s[k] = 0 /\ s[k + 1] = 0 /\ s[k + 2] = 255 /\ s[k + 3] = 0

\* C6 as stated: whatever stray bytes precede the acknowledgment marker in the
\* snapshot, expect_ack reports success.
C6_AnyPrefixTolerated ==
    (AckEnded /\ \E k \in 0 .. (BufLen - 4) : AckMarkerAt(b, k)) => result.kind = "ok"

\* C6, amended: expect_ack reports success for every snapshot made of a prefix
\* of stray bytes in which no 0x00 is directly followed by 0xFF, followed by
\* the acknowledgment marker.
C6_CleanPrefixTolerated ==
    (AckEnded /\ \E k \in 0 .. (BufLen - 4) :
                    /\ AckMarkerAt(b, k)
                    /\ \A j \in 0 .. (k - 2) : ~MarkerAt(b, j))
        => result.kind = "ok"

\* success behind a prefix of three stray bytes, 0x00 and 0xFF among them
C6_Witness ==
    /\ AckEnded /\ result.kind = "ok"
    /\ AckMarkerAt(b, 3)
    /\ \A j \in 0 .. 1 : ~MarkerAt(b, j)
    /\ b[0] = 255 /\ b[1] = 0 /\ b[2] = 7

\* ------------------------------------------------------------ claims: receive_frame

\* receive_frame has ended on the scan of the snapshot in b
RecvEnded ==
    /\ op = "receive_frame"
    /\ pc \in {"done", "aborted"}
    /\ result.kind \notin {"buserr", "timeout"}

\* C7: receive_frame yields a payload only from a snapshot whose first start
\* marker is followed by a byte `size` other than 0x00, 0xFF, 0x01, and the
\* payload is the size-1 bytes from 3 past the size byte on; after 0x00 or 0xFF
\* the snapshot yields nothing and polling goes on; after 0x01 the call fails
\* with ApplicationError.
C7_FrameByFollowByte ==
    /\ RecvEnded => (Follow(b) # -1 /\ b[Follow(b)] \notin {0, 255})
    /\ (RecvEnded /\ result.kind = "frame") =>
         /\ b[Follow(b)] # 1
         /\ result.data = [j \in 1 .. (b[Follow(b)] - 1) |-> b[Follow(b) + 3 + (j - 1)]]
    /\ (RecvEnded /\ b[Follow(b)] = 1) => (result.kind = "apperr" /\ pc = "done")
    /\ (op = "receive_frame" /\ pc = "recv_scan" /\ Follow(b) # -1
            /\ b[Follow(b)] \in {0, 255}) => FrameScan(b).kind = "break"

\* C8: when the payload declared by the size byte would reach past index 255,
\* receive_frame returns a decode error to its caller.
C8_BoundsValidated ==
    (/\ RecvEnded
     /\ b[Follow(b)] \notin {0, 255, 1}
     /\ Follow(b) + 3 + (b[Follow(b)] - 1) - 1 > BufLen - 1)
        => (pc = "done" /\ result.kind = "decode")

\* a step that starts a poll iteration of receive_frame
PollStarts == pc = "recv" /\ reads' = reads + 1

NoStartIn(p) ==
    \A k \in 1 .. (Len(p) - 2) : ~(p[k] = 0 /\ p[k + 1] = 0 /\ p[k + 2] = 255)

\* receive_frame has ended on the scan of the frame send_frame wrote
EchoScanned ==
    /\ op = "roundtrip"
    /\ pc \in {"done", "aborted"}
    /\ written # <<>>
    /\ Len(written) <= BufLen
    /\ \E bg \in Backgrounds : b = Place(0, written, bg)

\* C10 as stated: the frame of any accepted payload free of 0x00 0x00 0xFF,
\* scanned from the start of a snapshot, gives the payload back.
C10_RoundTripAll ==
    (EchoScanned /\ NoStartIn(payload)) => (pc = "done" /\ result = Res("frame", 0, payload))

\* C10, amended: the frame of any non-empty accepted payload that fits the
\* snapshot (at most 248 bytes), scanned from the start of a snapshot, gives
\* the payload back; the frame of the empty payload has length byte 0x01 and
\* is reported as ApplicationError.
C10_RoundTripNonEmpty ==
    /\ (EchoScanned /\ NoStartIn(payload) /\ payload # <<>> /\ Len(payload) <= 248)
          => (pc = "done" /\ result = Res("frame", 0, payload))
    /\ (EchoScanned /\ payload = <<>>) => result.kind = "apperr"

\* the longest payload whose frame fits has come back
C10_Witness ==
    EchoScanned /\ Len(payload) = 248 /\ result = Res("frame", 0, payload)

\* ------------------------------------------------------------ claims: response decoders

\* list has returned from its decoder
ListEnded == op = "list" /\ pc = "done" /\ result.kind = "tags"

\* the payload of the tag-list example
ListExample == <<0, 1, 0, 170, 187, 4, 4, 5, 6, 7, 2>>

\* C11 as stated: the tag-list decode of [0x00,0x01,0x00,0xAA,0xBB,0x04,0x04,
\* 0x05,0x06,0x07,0x02] yields exactly one tag, [0x04,0x05,0x06,0x07], and
\* leaves the trailing 0x02 unconsumed.
C11_ExampleUidFromOffsetSix ==
    (ListEnded /\ r = ListExample) => (result.data = << <<4, 5, 6, 7>> >> /\ i = 10)

\* C11, amended: the tag-list decode of [0x00,0x01,0x00,0xAA,0xBB,0x04,0x04,
\* 0x05,0x06,0x07,0x02] yields exactly one tag, [0x05,0x06,0x07,0x02]: the four
\* bytes skipped are 0x00,0xAA,0xBB,0x04, the UID length is the 0x04 at offset
\* 6, and the trailing 0x02 is the last byte of the UID; in every payload the
\* first UID starts at offset 7 and its length is the byte at offset 6.
C11_ExampleUidFromOffsetSeven ==
    /\ (ListEnded /\ r = ListExample) =>
         (result.data = << <<5, 6, 7, 2>> >> /\ i = Len(r))
    /\ (ListEnded /\ result.data # <<>>) =>
         result.data[1] = [k \in 1 .. At(r, 6) |-> At(r, 6 + k)]

\* the example has been decoded
C11_Witness == ListEnded /\ r = ListExample /\ Len(result.data) = 1

\* C12: the tag-list decoder returns either no tag or exactly payload[1] tags,
\* never an error; it returns no tag for a payload of fewer than 5 bytes and
\* whenever the read index has gone past the end of the payload, be it by the
\* skip of an entry header, the UID length byte, the UID or the skip over a
\* trailing field.
C12_NeverPartial ==
    /\ (op = "list" /\ pc \in {"done", "aborted"} /\ r # <<>>) => ListEnded
    /\ ListEnded =>
         /\ (result.data = <<>> \/ Len(result.data) = At(r, 1))
         /\ (Len(r) < 5 => result.data = <<>>)
         /\ (i > Len(r) => result.data = <<>>)

\* a pass of the loop of list that pushes a UID
PushesUid == pc = "entry" /\ Len(tags') = Len(tags) + 1

\* the index of the byte after the UID of the entry that starts at index j
PastUid(j) == j + 5 + At(r, j + 4)

\* C13: in the tag-list decoder the UID of an entry is the At(r, i+4) bytes
\* from index i+5 on; after it the next byte, if any, is peeked: when it is 2
\* the read index stays on that very byte, from which the next entry is
\* parsed, and for any other value v the index moves on by exactly v; when no
\* byte follows the UID the index stays past the UID.
C13_TrailingFieldPeek ==
    [][PushesUid =>
        /\ tags'[Len(tags')] = [k \in 1 .. At(r, i + 4) |-> At(r, i + 4 + k)]
        /\ i' = IF PastUid(i) >= Len(r) THEN PastUid(i)
                ELSE IF At(r, PastUid(i)) = 2 THEN PastUid(i)
                ELSE PastUid(i) + At(r, PastUid(i))]_vars

\* two tags decoded, the second entry parsed from the byte 2 peeked after the
\* first UID
C13_Witness ==
    /\ ListEnded
    /\ Len(result.data) = 2
    /\ At(r, PastUid(2)) = 2
    /\ result.data[2] = [k \in 1 .. At(r, PastUid(2) + 4) |-> At(r, PastUid(2) + 4 + k)]
    /\ result.data[2] # <<>>

\* get_firmware_version has gone through its decoder
VersionEnded ==
    op = "get_firmware_version" /\ pc \in {"done", "aborted"} /\ r # <<>>

\* C14: get_firmware_version returns a decode error, and does not abort, when
\* the payload receive_frame returned has fewer than 5 bytes.
C14_ShortPayloadDecodeError ==
    (VersionEnded /\ Len(r) < 5) => (pc = "done" /\ result.kind = "decode")

\* C15: for every payload of at least 5 bytes get_firmware_version returns
\* (payload[1], payload[2], payload[3], payload[4]); [0x00,0x32,0x01,0x06,0x07]
\* gives (0x32,0x01,0x06,0x07).
C15_VersionFromOffsetsOneToFour ==
    /\ (VersionEnded /\ Len(r) >= 5) =>
         /\ pc = "done"
         /\ result.kind = "version"
         /\ result.data = <<At(r, 1), At(r, 2), At(r, 3), At(r, 4)>>
    /\ (VersionEnded /\ r = <<0, 50, 1, 6, 7>>) => result.data = <<50, 1, 6, 7>>

\* the example has been decoded
C15_Witness ==
    VersionEnded /\ r = <<0, 50, 1, 6, 7>> /\ result = Decoded("version", <<50, 1, 6, 7>>)

\* ------------------------------------------------------------ claims: public operations

\* a public operation has returned to its caller, or aborted
OpEnded == op \in PublicOps /\ pc \in {"done", "aborted"}

\* the frame of the operation has been written to the bus
FrameWritten == trace # <<>> /\ trace[1] = "write"

\* the outcomes of the acknowledgment wait
AckOutcomes == {"ok", "nack", "ooo", "apperr", "timeout"}

\* C16: every execution of powerdown that has written its frame sleeps the
\* hold interval before it returns, whatever the outcome of the acknowledgment
\* wait: success, Nack, OutOfOrder, ApplicationError or Timeout.
C16_HoldUnconditional ==
    (OpEnded /\ op = "powerdown" /\ FrameWritten /\ result.kind \in AckOutcomes)
        => trace[Len(trace)] = "hold"

\* how often the event e occurs in the trace t
Count(t, e) == Cardinality({k \in 1 .. Len(t) : t[k] = e})

AckReads == Count(trace, "ack_read") + Count(trace, "ack_read_err")
PollReads == Count(trace, "poll_read") + Count(trace, "poll_read_err")

\* the order of the bus transactions of a public operation: one frame write,
\* first of all; then the acknowledgment reads, 1 to 3 of them once the write
\* succeeded; response-poll reads only after the acknowledgment reads and
\* only when the acknowledgment wait returned success; the decoder only on
\* the payload the frame scanner returned from the last snapshot read
BusOrder ==
    /\ \A k \in 1 .. Len(trace) : (trace[k] \in {"write", "write_err"} <=> k = 1)
    /\ \A j, k \in 1 .. Len(trace) :
          (j < k /\ trace[j] \in {"poll_read", "poll_read_err"})
              => trace[k] \notin {"ack_read", "ack_read_err"}
    /\ AckReads <= AckAttempts
    /\ (OpEnded /\ FrameWritten) => AckReads >= 1
    /\ (pc \in {"recv", "recv_scan"} \/ PollReads > 0) =>
          (scans # <<>> /\ scans[Len(scans)] = "ok")
    /\ (pc \in {"decode", "entry"} \/ r # <<>>) =>
          (/\ trace[Len(trace)] = "poll_read"
           /\ FrameScan(b) = Res("frame", 0, r))

\* the acknowledgment wait of the operation returned success
Acknowledged == scans # <<>> /\ scans[Len(scans)] = "ok"

\* C17 as stated: every public operation writes one frame, then reads 1 to 3
\* times for the acknowledgment, then polls for the response, in this order,
\* polling only after the acknowledgment succeeded and decoding only a
\* payload of the frame scanner.
C17_EveryOperationPolls ==
    /\ op \in PublicOps => BusOrder
    /\ (OpEnded /\ Acknowledged) => PollReads >= 1

\* C17, amended: as stated for get_firmware_version and list; setup and
\* powerdown write one frame and read 1 to 3 times for the acknowledgment,
\* but read no response and run no decoder.
C17_OnlyQueriesPoll ==
    /\ op \in PublicOps => BusOrder
    /\ (OpEnded /\ Acknowledged /\ op \in {"get_firmware_version", "list"})
          => PollReads >= 1
    /\ op \in {"setup", "powerdown"} => (PollReads = 0 /\ r = <<>>)

\* list has run through all stages: three acknowledgment reads, two polls, a
\* tag decoded
C17_Witness ==
    /\ OpEnded /\ op = "list"
    /\ trace = <<"write", "ack_read", "ack_read", "ack_read", "poll_read", "poll_read">>
    /\ result.kind = "tags" /\ Len(result.data) = 1

\* the failed bus transactions
BusErrors == {"write_err", "ack_read_err", "poll_read_err"}

\* C18: when the bus write of send_frame or a bus read of expect_ack or
\* receive_frame fails, the public operation returns that error at once: the
\* failed transaction is the last event of its trace, whatever is left of the
\* acknowledgment attempts and of the timeout.
C18_BusErrorsPassThrough ==
    op \in PublicOps =>
        /\ \A k \in 1 .. Len(trace) :
              trace[k] \in BusErrors =>
                  /\ k = Len(trace)
                  /\ pc = "done"
                  /\ result = Res("buserr", 0, <<>>)
        /\ result.kind = "buserr" =>
              (trace # <<>> /\ trace[Len(trace)] \in BusErrors)

\* a response poll failed with time left, after an acknowledgment wait that
\* had attempts left
C18_Witness ==
    /\ OpEnded /\ op = "get_firmware_version"
    /\ trace = <<"write", "ack_read", "poll_read", "poll_read_err">>
    /\ result.kind = "buserr"
    /\ elapsed < timeout

\* ------------------------------------------------------------ claims: scanner state

\* what the first start marker of the snapshot s alone makes of an
\* acknowledgment scan: the outcome by the byte that follows it
AckVerdict(s) ==
    IF Follow(s) = -1 THEN "none"
    ELSE IF s[Follow(s)] = 0 THEN "ok"
    ELSE IF s[Follow(s)] = 255 THEN "nack"
    ELSE IF s[Follow(s)] = 1
        THEN IF Follow(s) + 2 <= BufLen - 1 THEN "apperr" ELSE "panic"
    ELSE "ooo"

\* what the first start marker of the snapshot s alone makes of a response scan
FrameVerdict(s) ==
    IF Follow(s) = -1 THEN "none"
    ELSE IF s[Follow(s)] \in {0, 255} THEN "break"
    ELSE IF s[Follow(s)] = 1
        THEN IF Follow(s) + 2 <= BufLen - 1 THEN "apperr" ELSE "panic"
    ELSE IF Follow(s) + 3 + (s[Follow(s)] - 1) <= BufLen THEN "frame"
    ELSE "panic"

\* the operation is in, or has ended in, its acknowledgment wait, and the
\* snapshot last read has been scanned
AckScanned == scans # <<>> /\ PollReads = 0 /\ pc # "ack_scan"

\* the operation has left receive_frame on the scan of the snapshot in b
RecvReturned ==
    /\ PollReads > 0
    /\ trace[Len(trace)] = "poll_read"
    /\ pc \in {"done", "aborted", "decode", "entry"}
    /\ result.kind # "timeout"

\* C19: every scan of expect_ack and of receive_frame starts in the idle
\* state: the outcome of the scan of a snapshot is the one its own first start
\* marker gives, whatever state the scan of the snapshot before ended in; a
\* snapshot without a whole marker of its own gives nothing, also when the
\* one before ended with 0x00 0xFF.
C19_EachSnapshotAlone ==
    op \in PublicOps =>
        /\ AckScanned => scans[Len(scans)] = AckVerdict(b)
        /\ (AckScanned /\ pc \in {"done", "aborted"} /\ trace[Len(trace)] = "ack_read")
              => result.kind = (IF AckVerdict(b) = "none" THEN "timeout" ELSE AckVerdict(b))
        /\ RecvReturned => FrameVerdict(b) \in {"frame", "apperr", "panic"}
        /\ (RecvReturned /\ r = <<>>) => result.kind = FrameVerdict(b)
        /\ (RecvReturned /\ r # <<>>) => FrameVerdict(b) = "frame"

\* the second snapshot ended with 0x00 0xFF, the third began with 0x00 and
\* held no marker: the acknowledgment wait timed out
C19_Witness ==
    /\ OpEnded /\ result.kind = "timeout" /\ PollReads = 0
    /\ scans = <<"none", "none", "none">>
    /\ last_state = 2
    /\ b[0] = 0 /\ Follow(b) = -1

\* C20: whatever snapshots are read and wherever the start marker lies in
\* them, expect_ack returns success, Nack, ApplicationError, OutOfOrder,
\* Timeout or the error of the bus, and never aborts.
C20_AckAlwaysReturns ==
    op = "expect_ack" =>
        /\ pc # "aborted"
        /\ pc = "done" => result.kind \in AckOutcomes \cup {"buserr"}

====
